---- MODULE Spec2Model ----
(***************************************************************************)
(* A model of the protocol engine of spektralwerk_scpi_client              *)
(* (devices/spektralwerk_core.py): the session context manager with its    *)
(* reconnection delay, the error-checked query with its error-queue        *)
(* lookup, the plain query and the spectrum stream generator.              *)
(*                                                                         *)
(* Time is counted in ticks of 10 ms and measured from the current        *)
(* instant: time.monotonic() reads 0, a deadline is kept as the time left  *)
(* until it (0 once it has passed) and Tick moves every such value by one  *)
(* tick.  The code uses the clock only in differences, so nothing is lost. *)
(* Text is a sequence of one-character strings.  The device (and the pyvisa transport in front of it) is the   *)
(* environment: it accepts or refuses a connection, answers with any text  *)
(* of the bounded alphabet, or lets the transport raise a VisaIOError.     *)
(***************************************************************************)
EXTENDS Integers, Sequences, FiniteSets, TLC

\* ------------------------------------------------------------------ bounds

\* public operations started in one behaviour
MaxOps == 3

\* public operations started in one behaviour in which the device answers
\* with every text of at most MaxLen characters
MaxTextOps == 2

\* the longest text the device sends
MaxLen == 3

\* public operations started in one behaviour of two threads
MaxThreadOps == 2

\* frames the device pushes on one stream session
MaxFrames == 2

\* samples in a frame the device pushes
MaxPixels == 2

\* pulls and closes of streams in one behaviour in which the device pushes
\* every frame of the bounded vocabulary
MaxStreamOps == 3

\* ------------------------------------------------------- program constants

\* DEVICE_RECONNECTION_DELAY = 0.02 s, in ticks of 10 ms
DEVICE_RECONNECTION_DELAY == 2

\* default timeout of every public operation, in ms
REQUEST_TIMEOUT_IN_MS == 2000

\* the timeout _request_handler_with_error_check passes to get_error_message
ERROR_LOOKUP_TIMEOUT_IN_MS == 200

command_separator == ";"

CR == "\r"

\* Scpi.CLS_COMMAND, Scpi.ESR_QUERY, Scpi.SYSTEM_ERROR_NEXT_QUERY and the
\* stream commands are opaque command mnemonics
CLS_COMMAND == "*CLS"

ESR_QUERY == "*ESR?"

SYSTEM_ERROR_NEXT_QUERY == "SYSTem:ERRor:NEXT?"

MEASURE_SPECTRUM_REQUEST_QUERY == "MEASure:SPECtrum:REQuest?"

\* the configuration commands with the output format first
ConfigCommandsFormatFirst ==
  << "MEASure:SPECtrum:REQuest:CONFig:FORMat cobs_int16",
     "MEASure:SPECtrum:REQuest:CONFig:COUNt 0",
     "MEASure:SPECtrum:REQuest:CONFig:FREQuency 0" >>

\* the three configuration commands _spectrum_generator sends, in order
ConfigCommands ==
  << "MEASure:SPECtrum:REQuest:CONFig:COUNt 0",
     "MEASure:SPECtrum:REQuest:CONFig:FREQuency 0",
     "MEASure:SPECtrum:REQuest:CONFig:FORMat cobs_int16" >>

\* the callers (threads) that may use the one client object
Threads == {1, 2}

\* ------------------------------------------------------------------- text

Digits == {"0", "1", "2"}

DigitValue(c) == IF c = "0" THEN 0 ELSE IF c = "1" THEN 1 ELSE 2

\* str.rstrip("\r"): every trailing carriage return is removed
RECURSIVE RStripCR(_)
RStripCR(s) ==
  IF s # << >> /\ s[Len(s)] = CR THEN RStripCR(SubSeq(s, 1, Len(s) - 1)) ELSE s

\* str.strip() as int() applies it; carriage return is the only white space
\* of the alphabet
RECURSIVE LStripCR(_)
LStripCR(s) ==
  IF s # << >> /\ s[1] = CR THEN LStripCR(Tail(s)) ELSE s

\* sep in s
Contains(s, sep) == \E i \in 1..Len(s) : s[i] = sep

\* index of the last occurrence of sep in s (0 when there is none)
LastIndex(s, sep) ==
  IF Contains(s, sep)
    THEN CHOOSE i \in 1..Len(s) :
           s[i] = sep /\ \A j \in (i + 1)..Len(s) : s[j] # sep
    ELSE 0

\* index of the first occurrence of sep in s (0 when there is none)
FirstIndex(s, sep) ==
  IF Contains(s, sep)
    THEN CHOOSE i \in 1..Len(s) :
           s[i] = sep /\ \A j \in 1..(i - 1) : s[j] # sep
    ELSE 0

\* s.split(sep, 1) when sep is in s: the split at the first separator
SplitOnceFromLeft(s, sep) ==
  LET i == FirstIndex(s, sep)
  IN  << SubSeq(s, 1, i - 1), SubSeq(s, i + 1, Len(s)) >>

\* s.rsplit(sep, 1) when sep is in s: << head, tail >>
RSplitOnce(s, sep) ==
  LET i == LastIndex(s, sep)
  IN  << SubSeq(s, 1, i - 1), SubSeq(s, i + 1, Len(s)) >>

\* s.split(sep): the list of fields, one more than there are separators
RECURSIVE Split(_, _)
Split(s, sep) ==
  IF ~Contains(s, sep)
    THEN << s >>
    ELSE LET i == FirstIndex(s, sep)
         IN  << SubSeq(s, 1, i - 1) >> \o Split(SubSeq(s, i + 1, Len(s)), sep)

\* int(text) succeeds: after stripping white space an optional sign and at
\* least one digit remain (underscores are not in the alphabet)
IsDigits(s) == s # << >> /\ \A i \in 1..Len(s) : s[i] \in Digits

RECURSIVE DigitsValue(_)
DigitsValue(s) ==
  IF s = << >> THEN 0
  ELSE 10 * DigitsValue(SubSeq(s, 1, Len(s) - 1)) + DigitValue(s[Len(s)])

IntParses(s) ==
  LET t == RStripCR(LStripCR(s))
  IN  \/ IsDigits(t)
      \/ t # << >> /\ t[1] = "-" /\ IsDigits(Tail(t))

IntValue(s) ==
  LET t == RStripCR(LStripCR(s))
  IN  IF t[1] = "-" THEN 0 - DigitsValue(Tail(t)) ELSE DigitsValue(t)

\* ------------------------------------------------------------- exceptions

NoExc ==
  [type |-> "none", status |-> "none", command |-> "", code |-> 0,
   message |-> << >>]

Exc(type) == [NoExc EXCEPT !.type = type]

\* pyvisa's VisaIOError: its text is "<abbreviation> (<status code>): ..."
VisaIOError(status) == [NoExc EXCEPT !.type = "VisaIOError", !.status = status]

\* the statuses with which the transport lets a write or a read fail
FaultStatuses == {"error_timeout", "error_io"}

\* SpektralwerkResponseError(command, scpi_error_code, scpi_error_message)
SpektralwerkResponseError(command, code, message) ==
  [NoExc EXCEPT !.type = "SpektralwerkResponseError", !.command = command,
                !.code = code, !.message = message]

\* raise SpektralwerkResponseError(message, event_status_register): __init__
\* has three required parameters and is given two, so the call itself raises
\* TypeError and no SpektralwerkResponseError is built
ResponseErrorFromStatus(command, event_status_register) == Exc("TypeError")

\* except SpektralwerkError: the classes of exceptions.py
IsSpektralwerkError(e) ==
  e.type \in {"SpektralwerkConnectionError", "SpektralwerkTimeoutError",
              "SpektralwerkResponseError"}

\* except Exception: GeneratorExit derives from BaseException only
IsException(e) == e.type # "GeneratorExit"

\* str(pyvisa.constants.StatusCode.error_timeout) in str(exc): the status
\* code is part of the text of a VisaIOError; no other exception text of the
\* model (command, code and message of at most MaxLen characters, the
\* TypeError text) is long enough to hold the eleven characters of the code
TextHasStatus(e, status) == e.type = "VisaIOError" /\ e.status = status

\* a handler that goes by the exception's type instead of its status
SessionExceptByType(e) ==
  IF IsException(e) /\ e.type = "VisaIOError"
    THEN Exc("SpektralwerkTimeoutError")
    ELSE e

\* lines 131-136 of get_session: what leaves the with block for e
SessionExcept(e) ==
  IF IsException(e) /\ TextHasStatus(e, "error_timeout")
    THEN Exc("SpektralwerkTimeoutError")
    ELSE e

\* a get_session without the handler of lines 141-142
ConnectionExceptMissing(e) == e

\* lines 141-142 of get_session
ConnectionExcept(e) ==
  IF e.type = "ConnectionRefusedError"
    THEN Exc("SpektralwerkConnectionError")
    ELSE e

\* ------------------------------------------------------- reply processing

\* an else branch with its two values in the wrong order: a reply without
\* separator becomes the response, and the status is empty
SplitStatusSwapped(raw) ==
  LET response_with_esr == RStripCR(raw)
  IN  IF Contains(response_with_esr, command_separator)
        THEN RSplitOnce(response_with_esr, command_separator)
        ELSE << response_with_esr, << >> >>

\* lines 78-84: << response, event_status_register >>
SplitStatus(raw) ==
  LET response_with_esr == RStripCR(raw)
  IN  IF Contains(response_with_esr, command_separator)
        THEN RSplitOnce(response_with_esr, command_separator)
        ELSE << << >>, response_with_esr >>

\* a wrapping with the status query first and the status clear last
MessageWithEsrStatusFirst(message) ==
  << ESR_QUERY, command_separator, message, command_separator, CLS_COMMAND >>

\* line 77: f"{Scpi.CLS_COMMAND};{message};{Scpi.ESR_QUERY}"
MessageWithEsr(message) ==
  << CLS_COMMAND, command_separator, message, command_separator, ESR_QUERY >>

\* a comparison with the number 0, which no text equals
StatusIsErrorAlways(event_status_register) == TRUE

\* line 86
StatusIsError(event_status_register) == event_status_register # << "0" >>

\* lines 227-232 of get_error_message
ErrorMessageOf(response) ==
  LET fields == Split(response, ",")
  IN  IF Len(fields) = 2 /\ IntParses(fields[1])
        THEN [code |-> IntValue(fields[1]), message |-> fields[2]]
        ELSE [code |-> 0 - 1, message |-> response]

\* ------------------------------------------------------------ frame codec

\* Bytes are the numbers 0..255.  The delimiter of the stream, b"\0"
Delimiter == 0

\* struct.calcsize(format_timestamp), "Q"
TimestampSize == 8

\* struct.calcsize(format_pixel), "h"
PixelSize == 2

\* response.rstrip(delimiter): every trailing delimiter byte is removed
RECURSIVE RStripDelimiter(_)
RStripDelimiter(s) ==
  IF s # << >> /\ s[Len(s)] = Delimiter
    THEN RStripDelimiter(SubSeq(s, 1, Len(s) - 1))
    ELSE s

\* cobs.cobs.decode from position p (a length code) on, out being what is
\* decoded so far: the code counts itself and the bytes it covers; a code
\* below 0xFF that is not the last stands for a zero byte after its bytes.
\* A zero in the input, or a code that reaches beyond the input, raises
\* DecodeError.
RECURSIVE CobsDecodeFrom(_, _, _)
CobsDecodeFrom(in_bytes, p, out_bytes) ==
  LET length  == in_bytes[p]
      end     == p + length - 1
      last    == IF end < Len(in_bytes) THEN end ELSE Len(in_bytes)
      copy_mv == SubSeq(in_bytes, p + 1, last)
  IN  IF length = 0 \/ Contains(copy_mv, 0) \/ end > Len(in_bytes)
        THEN [ok |-> FALSE, out |-> << >>]
        ELSE IF end < Len(in_bytes)
               THEN CobsDecodeFrom(in_bytes, end + 1,
                      out_bytes \o copy_mv \o
                        (IF length < 255 THEN << 0 >> ELSE << >>))
               ELSE [ok |-> TRUE, out |-> out_bytes \o copy_mv]

\* line 195: cobs.cobs.decode(raw_spectrum); the empty input decodes to the
\* empty output
CobsDecode(in_bytes) ==
  IF Len(in_bytes) > 0
    THEN CobsDecodeFrom(in_bytes, 1, << >>)
    ELSE [ok |-> TRUE, out |-> << >>]

\* lines 196-198: floor division, as // of Python, also below zero
PixelCount(decoded_spectrum) ==
  (Len(decoded_spectrum) - TimestampSize) \div PixelSize

\* "<": the value of bytes in little-endian order, unsigned
RECURSIVE LittleEndian(_)
LittleEndian(bytes) ==
  IF bytes = << >> THEN 0 ELSE bytes[1] + 256 * LittleEndian(Tail(bytes))

\* format "H" in the place of "h": the two bytes as an unsigned number
UnpackPixelUnsigned(bytes) == LittleEndian(bytes)

\* format "h": the two bytes as a signed 16-bit number in two's complement
UnpackPixel(bytes) ==
  LET u == LittleEndian(bytes)
  IN  IF u >= 32768 THEN u - 65536 ELSE u

\* lines 199-202: struct.unpack(f"<Q{pixel_count}h", decoded_spectrum).  A
\* negative count makes the format invalid, and a buffer of another size
\* than the format's is rejected: both raise struct.error.
StructUnpack(decoded_spectrum) ==
  LET pixel_count == PixelCount(decoded_spectrum)
  IN  IF /\ pixel_count >= 0
         /\ Len(decoded_spectrum) = TimestampSize + pixel_count * PixelSize
        THEN [ok |-> TRUE,
              timestamp_musec |->
                LittleEndian(SubSeq(decoded_spectrum, 1, TimestampSize)),
              spectral_data |->
                [i \in 1..pixel_count |->
                   UnpackPixel(SubSeq(decoded_spectrum,
                                      TimestampSize + PixelSize * (i - 1) + 1,
                                      TimestampSize + PixelSize * i))]]
        ELSE [ok |-> FALSE, timestamp_musec |-> 0, spectral_data |-> << >>]

\* timestamp_musec / 1_000_000 as a float: the quotient, kept as its whole
\* seconds and the microseconds beyond them
TimestampSec(timestamp_musec) ==
  [sec |-> timestamp_musec \div 1000000, musec |-> timestamp_musec % 1000000]

\* lines 25-34 and 203-206: float(value) of a 16-bit integer is that number
Spectrum(timestamp_musec, spectral_data) ==
  [timestamp_sec |-> TimestampSec(timestamp_musec),
   data |-> [i \in 1..Len(spectral_data) |-> spectral_data[i]]]

NoSpectrum == [timestamp_sec |-> [sec |-> 0, musec |-> 0], data |-> << >>]

\* lines 195-206: a raw frame becomes a Spectrum, or an exception is raised
DecodeFrame(raw_spectrum) ==
  LET decoded_spectrum == CobsDecode(raw_spectrum)
      fields == StructUnpack(decoded_spectrum.out)
  IN  IF ~decoded_spectrum.ok
        THEN [ok |-> FALSE, exc |-> Exc("DecodeError"), spectrum |-> NoSpectrum]
        ELSE IF ~fields.ok
               THEN [ok |-> FALSE, exc |-> Exc("struct.error"),
                     spectrum |-> NoSpectrum]
               ELSE [ok |-> TRUE, exc |-> NoExc,
                     spectrum |-> Spectrum(fields.timestamp_musec,
                                           fields.spectral_data)]

\* The device's side of the frame format: the number n in width bytes,
\* little-endian
RECURSIVE PackUnsigned(_, _)
PackUnsigned(n, width) ==
  IF width = 0 THEN << >>
  ELSE << n % 256 >> \o PackUnsigned(n \div 256, width - 1)

\* a signed 16-bit sample in two's complement
PackPixel(v) == PackUnsigned(IF v < 0 THEN v + 65536 ELSE v, PixelSize)

RECURSIVE PackPixels(_)
PackPixels(samples) ==
  IF samples = << >> THEN << >>
  ELSE PackPixel(Head(samples)) \o PackPixels(Tail(samples))

\* byte stuffing of a payload shorter than 254 bytes: every zero byte is
\* replaced by the code that counts the bytes up to the next one
RECURSIVE CobsEncode(_)
CobsEncode(data) ==
  LET z == FirstIndex(data, 0)
  IN  IF z = 0
        THEN << Len(data) + 1 >> \o data
        ELSE << z >> \o SubSeq(data, 1, z - 1)
               \o CobsEncode(SubSeq(data, z + 1, Len(data)))

\* the frame that carries a timestamp and samples
EncodeFrame(v) ==
  CobsEncode(PackUnsigned(v.timestamp_musec, TimestampSize)
               \o PackPixels(v.samples))

\* ---------------------------------------------------------------- inputs

Texts(chars, n) == UNION { [1..k -> chars] : k \in 0..n }

\* the commands a caller passes to process_request_with_error_check
Commands == {"*IDN?"}

\* the timeouts a caller passes
Timeouts == {REQUEST_TIMEOUT_IN_MS}

\* the timeouts a caller passes to process_request_with_error_check: the
\* first caller leaves the default, the second also passes one below the
\* timeout of the error-queue lookup
CheckedTimeouts(t) == IF t = 1 THEN Timeouts ELSE Timeouts \cup {100}

\* what the device may answer to a status-wrapped command
CheckedReplies == Texts({"0", "1", command_separator, CR}, MaxLen)

\* what the device may answer to SYSTem:ERRor:NEXT?
ErrorReplies == Texts({"1", "a", ",", CR}, MaxLen)

\* a device of few words: a success without and with a response, a failure;
\* an error record, one whose message holds a comma, and none
FewCheckedReplies ==
  { << "0" >>, << "1", command_separator, "0" >>,
    << "1", command_separator, "1" >> }

FewErrorReplies == { << "1", ",", "a" >>, << "1", ",", "," >>, << "a" >> }

\* the timestamps and samples the device encodes: the extremes, a
\* timestamp that is no whole second, samples whose two bytes differ and
\* whose bytes are zero
Timestamps == {0, 1000001, 2147483647}

PixelValues == {0 - 32768, 0 - 1, 0, 256}

FrameValues ==
  [timestamp_musec : Timestamps, samples : Texts(PixelValues, MaxPixels)]

\* the frame every vocabulary of the device holds
CommonFrame == EncodeFrame([timestamp_musec |-> 1000001, samples |-> << 0 - 1 >>])

\* frames that do not decode: nothing between two delimiters, a length
\* code that reaches beyond the frame, a payload of 7 bytes and one of 9
MalformedFrames ==
  { << >>, << 2 >>,
    CobsEncode(<< 1, 2, 3, 4, 5, 6, 7 >>),
    CobsEncode(<< 1, 2, 3, 4, 5, 6, 7, 8, 9 >>) }

FewFrames == { CommonFrame, << 2 >> }

\* ----------------------------------------------------------------- state

VARIABLES
  wait_until_next_connection_time,
              \* self._wait_until_next_connection_time, as the time left
  sessions,   \* the open pyvisa sessions of the endpoint, each with the
              \* bytes the device has sent on it that are not read yet
  sinceClose, \* the time since a session of the endpoint was last closed,
              \* counted up to DEVICE_RECONNECTION_DELAY (-1: none was)
  device,     \* the texts the device answers with
  th,         \* per caller: the public operation in progress and its position
  gen,        \* per caller: the generator get_spectra returned, with the
              \* frames the device pushed on its session and the Spectrum
              \* values it yielded
  res,        \* per caller: how the last public operation ended
  budget,     \* public operations the callers may still start
  callers     \* the threads that use the client

vars ==
  << wait_until_next_connection_time, sessions, sinceClose, device, th, gen,
     res, budget, callers >>

\* an entry of an operation's log of transport activity
Event(e, slot, msg, n) == [e |-> e, slot |-> slot, msg |-> msg, n |-> n]

\* a failed write or read, with the status the transport reported
Fault(e, slot, status) == Event(e, slot, << status >>, 0)

IdleThread ==
  [op |-> "idle", pc |-> "idle", slot |-> "none", cmd |-> "", timeout |-> 0,
   esr |-> << >>, ret |-> << >>, exc |-> NoExc, pend |-> NoExc, cfg |-> 0,
   wake |-> 0, log |-> << >>]

NoResult ==
  [op |-> "none", kind |-> "none", text |-> << >>, code |-> 0,
   message |-> << >>, spectrum |-> NoSpectrum, exc |-> NoExc, log |-> << >>]

NoGenerator ==
  [state |-> "none", written |-> FALSE, timeout |-> 0, pushed |-> << >>,
   yielded |-> << >>]

Init ==
  /\ wait_until_next_connection_time = 0
  /\ sessions = {}
  /\ sinceClose = 0 - 1
  /\ device = [checked |-> FewCheckedReplies, errors |-> FewErrorReplies,
               frames |-> FewFrames]
  /\ th = [t \in Threads |-> IdleThread]
  /\ gen = [t \in Threads |-> NoGenerator]
  /\ res = [t \in Threads |-> NoResult]
  /\ budget = MaxOps
  /\ callers = {1}

\* one caller, and a device that answers with every text, either to the
\* status-wrapped command or to the error-queue query
InitText ==
  /\ wait_until_next_connection_time = 0
  /\ sessions = {}
  /\ sinceClose = 0 - 1
  /\ device \in { [checked |-> CheckedReplies, errors |-> FewErrorReplies,
                    frames |-> {}],
                   [checked |-> FewCheckedReplies, errors |-> ErrorReplies,
                    frames |-> {}] }
  /\ th = [t \in Threads |-> IdleThread]
  /\ gen = [t \in Threads |-> NoGenerator]
  /\ res = [t \in Threads |-> NoResult]
  /\ budget = MaxTextOps
  /\ callers = {1}

\* two threads call the one client object
InitThreads ==
  /\ wait_until_next_connection_time = 0
  /\ sessions = {}
  /\ sinceClose = 0 - 1
  /\ device = [checked |-> FewCheckedReplies, errors |-> FewErrorReplies,
               frames |-> {}]
  /\ th = [t \in Threads |-> IdleThread]
  /\ gen = [t \in Threads |-> NoGenerator]
  /\ res = [t \in Threads |-> NoResult]
  /\ budget = MaxThreadOps
  /\ callers = Threads

\* the second caller alone, which passes either timeout, and a device of
\* few words
InitTimeouts ==
  /\ wait_until_next_connection_time = 0
  /\ sessions = {}
  /\ sinceClose = 0 - 1
  /\ device = [checked |-> FewCheckedReplies, errors |-> FewErrorReplies,
               frames |-> {}]
  /\ th = [t \in Threads |-> IdleThread]
  /\ gen = [t \in Threads |-> NoGenerator]
  /\ res = [t \in Threads |-> NoResult]
  /\ budget = MaxOps
  /\ callers = {2}

\* one caller that streams from a device whose configuration commands
\* succeed and that pushes the common frame and one more: the frame of any
\* timestamp and samples, or a frame that does not decode
InitStream ==
  /\ wait_until_next_connection_time = 0
  /\ sessions = {}
  /\ sinceClose = 0 - 1
  /\ device \in
       { [checked |-> {<< "0" >>}, errors |-> {},
          frames |-> {CommonFrame, EncodeFrame(v)}] : v \in FrameValues }
       \cup
       { [checked |-> {<< "0" >>}, errors |-> {},
          frames |-> {CommonFrame, frame}] : frame \in MalformedFrames }
  /\ th = [t \in Threads |-> IdleThread]
  /\ gen = [t \in Threads |-> NoGenerator]
  /\ res = [t \in Threads |-> NoResult]
  /\ budget = MaxStreamOps
  /\ callers = {1}

\* the session a caller's active get_session context holds
SessionOf(t, slot) == CHOOSE s \in sessions : s.owner = t /\ s.slot = slot

Logged(self, e, msg, n) == Append(self.log, Event(e, self.slot, msg, n))

\* ------------------------------------------------- leaving get_session

\* the end of a public operation: the caller gets a value or an exception
Returned(self, text) ==
  [NoResult EXCEPT !.op = self.op, !.kind = "ret", !.text = text,
                   !.log = self.log]

Raised(self, e) ==
  [NoResult EXCEPT !.op = self.op, !.kind = "exc", !.exc = e, !.log = self.log]

\* lines 86-101: the status was not "0" and get_error_message has ended with
\* out, a returned reply or an exception; what the handler raises
HandlerRaise(self, out) ==
  IF out.kind = "ret"
    THEN LET error == ErrorMessageOf(out.text)
         IN  SpektralwerkResponseError(self.cmd, error.code, error.message)
    ELSE IF IsSpektralwerkError(out.exc)
           THEN ResponseErrorFromStatus(self.cmd, self.esr)
           ELSE out.exc

\* a request in a loop that tries the exchange once more after a timeout
CheckedEndRetry(self, g, out) ==
  IF out.kind = "exc" /\ out.exc.type = "SpektralwerkTimeoutError"
    THEN [th |-> [self EXCEPT !.pc = "gs_delay", !.ret = << >>],
          gen |-> g, res |-> NoResult]
    ELSE [th |-> IdleThread, gen |-> g,
          res |-> IF out.kind = "ret" THEN Returned(self, out.text)
                                       ELSE Raised(self, out.exc)]

\* lines 155-160: the with block of _request_with_error_check is left; the
\* response is returned, or the exception passes on to the caller
CheckedEnd(self, g, out) ==
  [th |-> IdleThread, gen |-> g,
   res |-> IF out.kind = "ret" THEN Returned(self, out.text)
                                ELSE Raised(self, out.exc)]

\* What the code around a get_session context does once the context is left
\* with out ([kind |-> "ret", text] or [kind |-> "exc", exc]): the new record
\* of the caller, of its generator, and the result when the operation ends.
AfterSession(self, g, out) ==
  CASE self.slot = "lookup" ->
         \* back in _request_handler_with_error_check, inside the with block
         \* of _request_with_error_check
         [th  |-> [self EXCEPT !.slot = "main", !.pc = "gs_exit",
                               !.exc = HandlerRaise(self, out),
                               !.esr = << >>, !.ret = << >>],
          gen |-> g, res |-> NoResult]
    [] self.slot = "main" /\ self.op = "checked" -> CheckedEnd(self, g, out)
    [] self.slot = "main" /\ self.op = "errmsg" ->
         [th |-> IdleThread, gen |-> g,
          res |-> IF out.kind = "ret"
                    THEN [Returned(self, << >>) EXCEPT
                            !.code = ErrorMessageOf(out.text).code,
                            !.message = ErrorMessageOf(out.text).message]
                    ELSE Raised(self, out.exc)]
    [] self.slot = "main" /\ self.op = "pull" ->
         \* _spectrum_generator, lines 178-194
         IF out.kind = "exc"
           THEN [th |-> IdleThread, gen |-> [g EXCEPT !.state = "finished"],
                 res |-> Raised(self, out.exc)]
           ELSE IF self.cfg < Len(ConfigCommands)
                  THEN [th |-> [self EXCEPT !.pc = "gs_delay",
                                            !.cfg = self.cfg + 1,
                                            !.cmd = ConfigCommands[self.cfg + 1],
                                            !.ret = << >>],
                        gen |-> g, res |-> NoResult]
                  ELSE [th |-> [self EXCEPT !.pc = "gs_delay",
                                            !.slot = "stream",
                                            !.cmd = MEASURE_SPECTRUM_REQUEST_QUERY,
                                            !.ret = << >>],
                        gen |-> g, res |-> NoResult]
    [] self.slot = "stream" /\ self.op = "pull" ->
         \* the exception of the pull: the one _spectrum_generator raised
         \* itself (pend) or the one that left _request_stream
         [th |-> IdleThread, gen |-> [g EXCEPT !.state = "finished"],
          res |-> Raised(self, IF self.pend # NoExc THEN self.pend ELSE out.exc)]
    [] self.slot = "stream" /\ self.op = "close" ->
         \* generator.close() swallows the GeneratorExit it threw
         [th |-> IdleThread, gen |-> [g EXCEPT !.state = "finished"],
          res |-> Returned(self, << >>)]

RetOut(text) == [kind |-> "ret", text |-> text, exc |-> NoExc]

ExcOut(e) == [kind |-> "exc", text |-> << >>, exc |-> e]

\* ------------------------------------------------------ public operations

\* process_request_with_error_check(command, timeout), and with it every
\* getter and setter: each is one _request_with_error_check
CallChecked(t) ==
  /\ th[t].op = "idle"
  /\ budget > 0
  /\ \E command \in Commands, timeout \in CheckedTimeouts(t) :
       th' = [th EXCEPT ![t] =
                [IdleThread EXCEPT !.op = "checked", !.pc = "gs_delay",
                                   !.slot = "main", !.cmd = command,
                                   !.timeout = timeout]]
  /\ res' = [res EXCEPT ![t] = NoResult]
  /\ budget' = budget - 1
  /\ UNCHANGED << wait_until_next_connection_time, sessions, sinceClose,
                  device, gen, callers >>

\* get_error_message(timeout)
CallErrorMessage(t) ==
  /\ th[t].op = "idle"
  /\ budget > 0
  /\ \E timeout \in Timeouts :
       th' = [th EXCEPT ![t] =
                [IdleThread EXCEPT !.op = "errmsg", !.pc = "gs_delay",
                                   !.slot = "main",
                                   !.cmd = SYSTEM_ERROR_NEXT_QUERY,
                                   !.timeout = timeout]]
  /\ res' = [res EXCEPT ![t] = NoResult]
  /\ budget' = budget - 1
  /\ UNCHANGED << wait_until_next_connection_time, sessions, sinceClose,
                  device, gen, callers >>

\* get_spectra(timeout): the generator object is made, none of its code runs
GetSpectra(t) ==
  /\ th[t].op = "idle"
  /\ gen[t].state \in {"none", "finished"}
  /\ \E timeout \in Timeouts :
       gen' = [gen EXCEPT ![t] =
                 [NoGenerator EXCEPT !.state = "created",
                                     !.timeout = timeout]]
  /\ UNCHANGED << wait_until_next_connection_time, sessions, sinceClose,
                  device, th, res, budget, callers >>

\* a stream that asks for every frame anew: a later pull enters get_session
\* again instead of resuming at the yield
PullReopens(t) ==
  /\ th[t].op = "idle"
  /\ budget > 0
  /\ gen[t].state \in {"created", "suspended"}
  /\ th' = [th EXCEPT ![t] =
              IF gen[t].state = "created"
                THEN [IdleThread EXCEPT !.op = "pull", !.pc = "gs_delay",
                                        !.slot = "main", !.cfg = 1,
                                        !.cmd = ConfigCommands[1],
                                        !.timeout = gen[t].timeout]
                ELSE [IdleThread EXCEPT !.op = "pull", !.pc = "gs_delay",
                                        !.slot = "stream",
                                        !.cmd = MEASURE_SPECTRUM_REQUEST_QUERY,
                                        !.timeout = gen[t].timeout]]
  /\ gen' = [gen EXCEPT ![t].state = "running"]
  /\ res' = [res EXCEPT ![t] = NoResult]
  /\ budget' = budget - 1
  /\ UNCHANGED << wait_until_next_connection_time, sessions, sinceClose,
                  device, callers >>

\* next(generator): the first pull enters _spectrum_generator at its top, a
\* later one resumes _request_stream after its yield
Pull(t) ==
  /\ th[t].op = "idle"
  /\ budget > 0
  /\ gen[t].state \in {"created", "suspended"}
  /\ th' = [th EXCEPT ![t] =
              IF gen[t].state = "created"
                THEN [IdleThread EXCEPT !.op = "pull", !.pc = "gs_delay",
                                        !.slot = "main", !.cfg = 1,
                                        !.cmd = ConfigCommands[1],
                                        !.timeout = gen[t].timeout]
                ELSE [IdleThread EXCEPT !.op = "pull", !.pc = "body",
                                        !.slot = "stream",
                                        !.cmd = MEASURE_SPECTRUM_REQUEST_QUERY,
                                        !.timeout = gen[t].timeout]]
  /\ gen' = [gen EXCEPT ![t].state = "running"]
  /\ res' = [res EXCEPT ![t] = NoResult]
  /\ budget' = budget - 1
  /\ UNCHANGED << wait_until_next_connection_time, sessions, sinceClose,
                  device, callers >>

\* The consumer stops: generator.close(), or the last reference to the
\* generator is dropped and reference counting finalizes it.  A generator
\* that never ran just ends; a suspended one has GeneratorExit thrown at the
\* yield of _request_stream, inside the with block of get_session.
CloseStream(t) ==
  /\ th[t].op = "idle"
  /\ \/ /\ gen[t].state = "created"
        /\ gen' = [gen EXCEPT ![t].state = "finished"]
        /\ UNCHANGED << th, res, budget >>
     \/ /\ gen[t].state = "suspended"
        /\ budget > 0
        /\ th' = [th EXCEPT ![t] =
                    [IdleThread EXCEPT !.op = "close", !.pc = "gs_exit",
                                       !.slot = "stream",
                                       !.exc = Exc("GeneratorExit"),
                                       !.timeout = gen[t].timeout]]
        /\ gen' = [gen EXCEPT ![t].state = "running"]
        /\ res' = [res EXCEPT ![t] = NoResult]
        /\ budget' = budget - 1
  /\ UNCHANGED << wait_until_next_connection_time, sessions, sinceClose,
                  device, callers >>

\* ------------------------------------------------------------ get_session

\* time.monotonic(): the current instant is the origin of the time scale
Monotonic == 0

\* line 118: delay_time
DelayTime(deadline, t0) == deadline - t0

\* lines 138-140: the deadline set after session.close()
NextConnectionTime(t0) == t0 + DEVICE_RECONNECTION_DELAY

\* a lookup that passes on the timeout of its caller
SessionTimeoutOfCaller(self) == self.timeout

\* the timeout of the session a caller is about to open: the lookup of line
\* 93 passes its own
SessionTimeout(self) ==
  IF self.slot = "lookup" THEN ERROR_LOOKUP_TIMEOUT_IN_MS ELSE self.timeout

\* a session opened without the with statement: nothing closes it when an
\* exception passes
WithExitMissing(open, s) == open

\* the with statement of line 122 leaves its block: Resource.__exit__ closes
\* the session, on a return and on an exception alike
WithExit(open, s) == open \ {s}

\* a get_session that connects without looking at the deadline
GateReadNoWait(t) ==
  /\ th[t].pc = "gs_delay"
  /\ th' = [th EXCEPT ![t] = [th[t] EXCEPT !.pc = "gs_open"]]
  /\ UNCHANGED << wait_until_next_connection_time, sessions, sinceClose,
                  device, gen, res, budget, callers >>

\* lines 118-119: read the deadline and the clock
GateRead(t) ==
  /\ th[t].pc = "gs_delay"
  /\ LET delay_time == DelayTime(wait_until_next_connection_time, Monotonic)
     IN  th' = [th EXCEPT ![t] =
                  IF delay_time > 0
                    THEN [th[t] EXCEPT !.pc = "gs_sleep",
                                       !.wake = delay_time]
                    ELSE [th[t] EXCEPT !.pc = "gs_open"]]
  /\ UNCHANGED << wait_until_next_connection_time, sessions, sinceClose,
                  device, gen, res, budget, callers >>

\* line 120: time.sleep(delay_time) returns once delay_time has passed
Sleep(t) ==
  /\ th[t].pc = "gs_sleep"
  /\ th[t].wake = 0
  /\ th' = [th EXCEPT ![t] = [th[t] EXCEPT !.pc = "gs_open"]]
  /\ UNCHANGED << wait_until_next_connection_time, sessions, sinceClose,
                  device, gen, res, budget, callers >>

\* a get_session that sets the deadline when the connection is refused, as
\* it does after a close
OpenSetsGate(t) ==
  /\ th[t].pc = "gs_open"
  /\ \/ /\ sessions' = sessions \cup
                         {[owner |-> t, slot |-> th[t].slot,
                           timeout |-> SessionTimeout(th[t]),
                           afterClose |-> sinceClose, inbox |-> << >>]}
        /\ th' = [th EXCEPT ![t] =
                    [th[t] EXCEPT
                       !.pc = "body",
                       !.log = th[t].log \o
                         << Event("connect", th[t].slot, << >>, 0),
                            Event("timeout", th[t].slot, << >>,
                                  SessionTimeout(th[t])),
                            Event("clear", th[t].slot, << >>, 0) >>]]
        /\ UNCHANGED << gen, res, wait_until_next_connection_time >>
     \/ LET self == [th[t] EXCEPT !.log = Logged(th[t], "refused", << >>, 0)]
            next == AfterSession(self, gen[t],
                      ExcOut(ConnectionExcept(Exc("ConnectionRefusedError"))))
        IN  /\ th' = [th EXCEPT ![t] = next.th]
            /\ gen' = [gen EXCEPT ![t] = next.gen]
            /\ res' = [res EXCEPT ![t] = next.res]
            /\ wait_until_next_connection_time' = NextConnectionTime(Monotonic)
            /\ UNCHANGED sessions
  /\ UNCHANGED << sinceClose, device, budget, callers >>

\* lines 122-128: open_resource, then the timeout and clear(); a refused
\* connection raises ConnectionRefusedError, which line 141 catches
Open(t) ==
  /\ th[t].pc = "gs_open"
  /\ \/ /\ sessions' = sessions \cup
                         {[owner |-> t, slot |-> th[t].slot,
                           timeout |-> SessionTimeout(th[t]),
                           afterClose |-> sinceClose, inbox |-> << >>]}
        /\ th' = [th EXCEPT ![t] =
                    [th[t] EXCEPT
                       !.pc = "body",
                       !.log = th[t].log \o
                         << Event("connect", th[t].slot, << >>, 0),
                            Event("timeout", th[t].slot, << >>,
                                  SessionTimeout(th[t])),
                            Event("clear", th[t].slot, << >>, 0) >>]]
        /\ UNCHANGED << gen, res >>
     \/ LET self == [th[t] EXCEPT !.log = Logged(th[t], "refused", << >>, 0)]
            next == AfterSession(self, gen[t],
                      ExcOut(ConnectionExcept(Exc("ConnectionRefusedError"))))
        IN  /\ th' = [th EXCEPT ![t] = next.th]
            /\ gen' = [gen EXCEPT ![t] = next.gen]
            /\ res' = [res EXCEPT ![t] = next.res]
            /\ UNCHANGED sessions
  /\ UNCHANGED << wait_until_next_connection_time, sinceClose, device, budget,
                  callers >>

\* line 137: the block was left without an exception; session.close()
CloseSession(t) ==
  /\ th[t].pc = "gs_close"
  /\ sessions' = sessions \ {SessionOf(t, th[t].slot)}
  /\ sinceClose' = 0
  /\ th' = [th EXCEPT ![t] =
              [th[t] EXCEPT !.pc = "gs_gate",
                            !.log = Logged(th[t], "close", << >>, 0)]]
  /\ UNCHANGED << wait_until_next_connection_time, device, gen, res, budget,
                  callers >>

\* lines 138-140: set the deadline; the context is left and the caller of
\* get_session goes on
GateSet(t) ==
  /\ th[t].pc = "gs_gate"
  /\ wait_until_next_connection_time' = NextConnectionTime(Monotonic)
  /\ LET self == [th[t] EXCEPT !.log = Logged(th[t], "gate", << >>, 0)]
         next == AfterSession(self, gen[t], RetOut(self.ret))
     IN  /\ th' = [th EXCEPT ![t] = next.th]
         /\ gen' = [gen EXCEPT ![t] = next.gen]
         /\ res' = [res EXCEPT ![t] = next.res]
  /\ UNCHANGED << sessions, sinceClose, device, budget, callers >>

\* lines 131-136 and 141-142: an exception arrives at the yield.  The
\* handler maps a timeout, the with statement closes the session on the way
\* out, lines 137-140 are skipped, and the exception leaves get_session.
ExitOnException(t) ==
  /\ th[t].pc = "gs_exit"
  /\ LET s    == SessionOf(t, th[t].slot)
         e    == ConnectionExcept(SessionExcept(th[t].exc))
         self == [th[t] EXCEPT !.exc = NoExc,
                               !.log = Logged(th[t], "close", << >>, 0)]
         next == AfterSession(self, gen[t], ExcOut(e))
     IN  /\ sessions' = WithExit(sessions, s)
         /\ th' = [th EXCEPT ![t] = next.th]
         /\ gen' = [gen EXCEPT ![t] = next.gen]
         /\ res' = [res EXCEPT ![t] = next.res]
  /\ sinceClose' = 0
  /\ UNCHANGED << wait_until_next_connection_time, device, budget, callers >>

\* ------------------------------------------------- inside the with block

\* line 78 in the with block of _request_with_error_check:
\* resource.query(message_with_esr) writes the wrapped command and reads one
\* line; then lines 79-102
QueryChecked(t) ==
  /\ th[t].pc = "body"
  /\ th[t].slot = "main"
  /\ th[t].op \in {"checked", "pull"}
  /\ LET message_with_esr == MessageWithEsr(th[t].cmd)
     IN  \/ \E status \in FaultStatuses :
              th' = [th EXCEPT ![t] =
                       [th[t] EXCEPT
                          !.pc = "gs_exit", !.exc = VisaIOError(status),
                          !.log = Append(th[t].log,
                                         Fault("write_failed", "main", status))]]
         \/ \E status \in FaultStatuses :
              th' = [th EXCEPT ![t] =
                       [th[t] EXCEPT
                          !.pc = "gs_exit", !.exc = VisaIOError(status),
                          !.log = th[t].log \o
                            << Event("write", "main", message_with_esr, 0),
                               Fault("read_failed", "main", status) >>]]
         \/ \E raw \in device.checked :
              LET response == SplitStatus(raw)[1]
                  event_status_register == SplitStatus(raw)[2]
                  log == th[t].log \o
                           << Event("write", "main", message_with_esr, 0),
                              Event("read", "main", raw, 0) >>
              IN  th' = [th EXCEPT ![t] =
                           IF StatusIsError(event_status_register)
                             THEN [th[t] EXCEPT
                                     !.pc = "gs_delay", !.slot = "lookup",
                                     !.esr = event_status_register,
                                     !.log = log]
                             ELSE [th[t] EXCEPT
                                     !.pc = "gs_close", !.ret = response,
                                     !.log = log]]
  /\ UNCHANGED << wait_until_next_connection_time, sessions, sinceClose,
                  device, gen, res, budget, callers >>

\* line 165 in the with block of _request_without_error_check:
\* session.query(message); the reply is returned as it was read
QueryPlain(t) ==
  /\ th[t].pc = "body"
  /\ \/ th[t].slot = "lookup"
     \/ th[t].slot = "main" /\ th[t].op = "errmsg"
  /\ LET message == << SYSTEM_ERROR_NEXT_QUERY >>
     IN  \/ \E status \in FaultStatuses :
              th' = [th EXCEPT ![t] =
                       [th[t] EXCEPT
                          !.pc = "gs_exit", !.exc = VisaIOError(status),
                          !.log = Append(th[t].log,
                                         Fault("write_failed", th[t].slot, status))]]
         \/ \E status \in FaultStatuses :
              th' = [th EXCEPT ![t] =
                       [th[t] EXCEPT
                          !.pc = "gs_exit", !.exc = VisaIOError(status),
                          !.log = th[t].log \o
                            << Event("write", th[t].slot, message, 0),
                               Fault("read_failed", th[t].slot, status) >>]]
         \/ \E response \in device.errors :
              th' = [th EXCEPT ![t] =
                       [th[t] EXCEPT
                          !.pc = "gs_close", !.ret = response,
                          !.log = th[t].log \o
                            << Event("write", th[t].slot, message, 0),
                               Event("read", th[t].slot, response, 0) >>]]
  /\ UNCHANGED << wait_until_next_connection_time, sessions, sinceClose,
                  device, gen, res, budget, callers >>

\* line 149 of _request_stream: session.write(message)
StreamWrite(t) ==
  /\ th[t].pc = "body"
  /\ th[t].slot = "stream"
  /\ ~gen[t].written
  /\ LET message == << th[t].cmd >>
     IN  \/ /\ \E status \in FaultStatuses :
                 th' = [th EXCEPT ![t] =
                          [th[t] EXCEPT
                             !.pc = "gs_exit", !.exc = VisaIOError(status),
                             !.log = Append(th[t].log,
                                         Fault("write_failed", th[t].slot, status))]]
            /\ UNCHANGED gen
         \/ /\ th' = [th EXCEPT ![t] =
                        [th[t] EXCEPT !.log = Logged(th[t], "write", message, 0)]]
            /\ gen' = [gen EXCEPT ![t].written = TRUE]
  /\ UNCHANGED << wait_until_next_connection_time, sessions, sinceClose,
                  device, res, budget, callers >>

\* a read that takes the first frame and empties the receive buffer
ReadRawFlush(inbox) ==
  [response |-> SubSeq(inbox, 1, FirstIndex(inbox, Delimiter)),
   rest |-> << >>]

\* line 152: session.read_raw() under read_termination_context(delimiter)
\* returns the received bytes up to the first delimiter, the delimiter
\* included; what was received after it stays in the session's buffer
ReadRaw(inbox) ==
  [response |-> SubSeq(inbox, 1, FirstIndex(inbox, Delimiter)),
   rest |-> SubSeq(inbox, FirstIndex(inbox, Delimiter) + 1, Len(inbox))]

\* a generator that goes on to the next frame instead of suspending
YieldAndGoOn(self, g, spectrum) ==
  [th  |-> self,
   gen |-> [g EXCEPT !.yielded = Append(@, spectrum)],
   res |-> NoResult]

\* lines 203-206: _spectrum_generator yields the Spectrum; the pull returns
\* it, and both generators stay suspended at their yield
Yield(self, g, spectrum) ==
  [th  |-> IdleThread,
   gen |-> [g EXCEPT !.state = "suspended", !.yielded = Append(@, spectrum)],
   res |-> [Returned(self, << >>) EXCEPT !.spectrum = spectrum]]

\* lines 152-153 and 195-206: read_raw() one frame, strip the delimiter,
\* yield it to _spectrum_generator, which decodes it and yields the
\* Spectrum to the consumer.  The read fails when the transport does; it
\* times out only while no whole frame has arrived.  When decoding raises,
\* the exception leaves _spectrum_generator while _request_stream is
\* suspended at its yield: the for loop's reference to it is dropped, it is
\* finalized, and GeneratorExit is thrown at the yield inside the with block
\* of get_session.
StreamRead(t) ==
  /\ th[t].pc = "body"
  /\ th[t].slot = "stream"
  /\ gen[t].written
  /\ LET s == SessionOf(t, "stream")
     IN  \/ /\ \E status \in FaultStatuses :
                 /\ status = "error_timeout" => ~Contains(s.inbox, Delimiter)
                 /\ th' = [th EXCEPT ![t] =
                       [th[t] EXCEPT
                          !.pc = "gs_exit", !.exc = VisaIOError(status),
                          !.log = Append(th[t].log,
                                         Fault("read_failed", "stream", status))]]
            /\ UNCHANGED << sessions, gen, res >>
         \/ /\ Contains(s.inbox, Delimiter)
            /\ LET read         == ReadRaw(s.inbox)
                   raw_spectrum == RStripDelimiter(read.response)
                   decoded      == DecodeFrame(raw_spectrum)
                   self         == [th[t] EXCEPT
                                      !.log = Logged(th[t], "read_raw",
                                                     read.response, 0)]
                   next         == Yield(self, gen[t], decoded.spectrum)
               IN  /\ sessions' = (sessions \ {s}) \cup
                                     {[s EXCEPT !.inbox = read.rest]}
                   /\ IF decoded.ok
                        THEN /\ th' = [th EXCEPT ![t] = next.th]
                             /\ gen' = [gen EXCEPT ![t] = next.gen]
                             /\ res' = [res EXCEPT ![t] = next.res]
                        ELSE /\ th' = [th EXCEPT ![t] =
                                         [self EXCEPT
                                            !.pc = "gs_exit",
                                            !.exc = Exc("GeneratorExit"),
                                            !.pend = decoded.exc]]
                             /\ UNCHANGED << gen, res >>
  /\ UNCHANGED << wait_until_next_connection_time, sinceClose, device, budget,
                  callers >>

\* the device pushes one more frame, and the delimiter after it, on the
\* session on which it has received the stream command
DevicePush(t) ==
  /\ gen[t].written
  /\ Len(gen[t].pushed) < MaxFrames
  /\ \E s \in sessions :
       /\ s.owner = t
       /\ s.slot = "stream"
       /\ \E frame \in device.frames :
            /\ sessions' = (sessions \ {s}) \cup
                              {[s EXCEPT !.inbox = @ \o frame \o << Delimiter >>]}
            /\ gen' = [gen EXCEPT ![t].pushed = Append(@, frame)]
  /\ UNCHANGED << wait_until_next_connection_time, sinceClose, device, th, res,
                  budget, callers >>

\* ------------------------------------------------------------------ time

Max(a, b) == IF a >= b THEN a ELSE b

Min(a, b) == IF a <= b THEN a ELSE b

\* one tick passes: every deadline is one tick nearer
Tick ==
  /\ wait_until_next_connection_time' =
       Max(0, wait_until_next_connection_time - 1)
  /\ sinceClose' =
       IF sinceClose < 0 THEN sinceClose
       ELSE Min(DEVICE_RECONNECTION_DELAY, sinceClose + 1)
  /\ th' = [t \in Threads |-> [th[t] EXCEPT !.wake = Max(0, th[t].wake - 1)]]
  /\ UNCHANGED << sessions, device, gen, res, budget, callers >>

Next ==
  \/ Tick
  \/ \E t \in callers : CallChecked(t)
  \/ \E t \in callers : CallErrorMessage(t)
  \/ \E t \in callers : GetSpectra(t)
  \/ \E t \in callers : Pull(t)
  \/ \E t \in callers : CloseStream(t)
  \/ \E t \in callers : GateRead(t)
  \/ \E t \in callers : Sleep(t)
  \/ \E t \in callers : Open(t)
  \/ \E t \in callers : CloseSession(t)
  \/ \E t \in callers : GateSet(t)
  \/ \E t \in callers : ExitOnException(t)
  \/ \E t \in callers : QueryChecked(t)
  \/ \E t \in callers : QueryPlain(t)
  \/ \E t \in callers : StreamWrite(t)
  \/ \E t \in callers : StreamRead(t)
  \/ \E t \in callers : DevicePush(t)

Spec == Init /\ [][Next]_vars

\* the spectrum stream alone: get_spectra, its pulls and its close
NextStream ==
  \/ Tick
  \/ \E t \in callers : GetSpectra(t)
  \/ \E t \in callers : Pull(t)
  \/ \E t \in callers : CloseStream(t)
  \/ \E t \in callers : GateRead(t)
  \/ \E t \in callers : Sleep(t)
  \/ \E t \in callers : Open(t)
  \/ \E t \in callers : CloseSession(t)
  \/ \E t \in callers : GateSet(t)
  \/ \E t \in callers : ExitOnException(t)
  \/ \E t \in callers : QueryChecked(t)
  \/ \E t \in callers : StreamWrite(t)
  \/ \E t \in callers : StreamRead(t)
  \/ \E t \in callers : DevicePush(t)

SpecStream == InitStream /\ [][NextStream]_vars

\* the operations that are one exchange, a lookup included: the error-checked
\* query and get_error_message
NextQueries ==
  \/ Tick
  \/ \E t \in callers : CallChecked(t)
  \/ \E t \in callers : CallErrorMessage(t)
  \/ \E t \in callers : GateRead(t)
  \/ \E t \in callers : Sleep(t)
  \/ \E t \in callers : Open(t)
  \/ \E t \in callers : CloseSession(t)
  \/ \E t \in callers : GateSet(t)
  \/ \E t \in callers : ExitOnException(t)
  \/ \E t \in callers : QueryChecked(t)
  \/ \E t \in callers : QueryPlain(t)

SpecText == InitText /\ [][NextQueries]_vars

SpecThreads == InitThreads /\ [][NextQueries]_vars

SpecTimeouts == InitTimeouts /\ [][NextQueries]_vars

\* ------------------------------------------------------------ properties

\* the transport activity of a caller's operation: of the one in progress,
\* or of the one that ended last
LogOf(t) == IF th[t].op = "idle" THEN res[t].log ELSE th[t].log

OpOf(t) == IF th[t].op = "idle" THEN res[t].op ELSE th[t].op

Count(log, e) == Cardinality({ i \in 1..Len(log) : log[i].e = e })

\* the operation's own session (not the one of its error-queue lookup)
OwnSlots == {"main", "stream"}

\* a write or read of the operation's own session failed with status
OwnFault(log, status) ==
  \E i \in 1..Len(log) :
    /\ log[i].e \in {"write_failed", "read_failed"}
    /\ log[i].slot \in OwnSlots
    /\ log[i].msg = << status >>

\* the connection of the operation's own session was refused
OwnRefusal(log) ==
  \E i \in 1..Len(log) : log[i].e = "refused" /\ log[i].slot \in OwnSlots

\* the deadline is no earlier than DEVICE_RECONNECTION_DELAY after the last
\* close of a session
GateCoversLastClose ==
  sinceClose >= 0 =>
    wait_until_next_connection_time >= DEVICE_RECONNECTION_DELAY - sinceClose

\* C1: with a single caller, no session is established earlier than
\* DEVICE_RECONNECTION_DELAY after the previous session of the endpoint was
\* closed, whatever the outcome of the exchanges.
C1_OpenRespectsGate ==
  \A s \in sessions :
    s.afterClose >= 0 => s.afterClose >= DEVICE_RECONNECTION_DELAY

\* C2: when an exchange fails inside its session and the session is closed
\* on the way out, the deadline is set to the time of the close plus
\* DEVICE_RECONNECTION_DELAY.
C2_GateSetOnFailure ==
  \A t \in callers :
    ( /\ th[t].op = "idle"
      /\ res[t].kind = "exc"
      /\ res[t].op \in {"checked", "errmsg", "pull"}
      /\ res[t].log # << >>
      /\ res[t].log[Len(res[t].log)].e = "close" )
    => GateCoversLastClose

\* C3: when the consumer of a spectrum stream closes or abandons it
\* mid-stream, the deadline is set to the time of the close plus
\* DEVICE_RECONNECTION_DELAY.
C3_GateSetOnStreamClose ==
  \A t \in callers :
    (th[t].op = "idle" /\ res[t].op = "close" /\ res[t].kind = "ret")
    => GateCoversLastClose

\* C4: a caller that is not inside a public operation holds no open session,
\* except the session of its spectrum stream while that stream is suspended
\* between two pulls: every operation closes what it opened, on a return, on
\* an error and on the close of the stream.
C4_SessionsReleased ==
  \A t \in Threads :
    th[t].op = "idle" =>
      \A s \in sessions :
        s.owner = t => (s.slot = "stream" /\ gen[t].state = "suspended")

\* C4 witness: a pull ended with the decode error of a frame, its stream
\* session was established, and no session is open
C4_Witness ==
  \E t \in Threads :
    /\ th[t].op = "idle"
    /\ res[t].op = "pull"
    /\ res[t].kind = "exc"
    /\ res[t].exc.type = "DecodeError"
    /\ \E i \in 1..Len(res[t].log) :
         res[t].log[i].e = "connect" /\ res[t].log[i].slot = "stream"
    /\ sessions = {}

\* C5: with a single caller at most one session is open on the endpoint.
C5_AtMostOneSession == Cardinality(sessions) <= 1

\* C6: sessions of two threads are never open at the same time.
C6_OpensSerialized ==
  \A s1 \in sessions : \A s2 \in sessions : s1.owner = s2.owner

\* C7: an operation whose own session is refused by the transport ends with
\* SpektralwerkConnectionError, and no operation ends with the raw
\* ConnectionRefusedError.
C7_RefusalIsConnectionError ==
  \A t \in Threads :
    res[t].kind # "none" =>
      /\ res[t].exc.type # "ConnectionRefusedError"
      /\ OwnRefusal(res[t].log) =>
           /\ res[t].kind = "exc"
           /\ res[t].exc.type = "SpektralwerkConnectionError"

\* C7 witness: an operation ended after the connection of its own session
\* was refused
C7_Witness ==
  \E t \in Threads :
    /\ res[t].kind = "exc"
    /\ OwnRefusal(res[t].log)
    /\ res[t].exc.type = "SpektralwerkConnectionError"

\* C8: an operation in whose own session a write or read fails with the
\* timeout status ends with SpektralwerkTimeoutError; one whose write or
\* read fails with another status ends with the transport's exception; and
\* no operation ends with SpektralwerkTimeoutError without such a timeout.
C8_TimeoutByStatus ==
  \A t \in Threads :
    res[t].kind # "none" =>
      /\ OwnFault(res[t].log, "error_timeout") =>
           /\ res[t].kind = "exc"
           /\ res[t].exc.type = "SpektralwerkTimeoutError"
      /\ \A status \in FaultStatuses \ {"error_timeout"} :
           OwnFault(res[t].log, status) =>
             /\ res[t].kind = "exc"
             /\ res[t].exc = VisaIOError(status)
      /\ res[t].exc.type = "SpektralwerkTimeoutError" =>
           OwnFault(res[t].log, "error_timeout")

\* C8 witness: a later pull of a running stream (its transport activity
\* begins with the read) ended after its read_raw timed out
C8_Witness ==
  \E t \in Threads :
    /\ res[t].op = "pull"
    /\ res[t].kind = "exc"
    /\ res[t].exc.type = "SpektralwerkTimeoutError"
    /\ res[t].log # << >>
    /\ res[t].log[1] = Fault("read_failed", "stream", "error_timeout")

\* the reply carries the status value "0": it is "0", or ends with ";0",
\* before the carriage returns the transport left at its end
StatusZero(raw) ==
  LET r == RStripCR(raw)
  IN  \/ r = << "0" >>
      \/ Len(r) >= 2 /\ r[Len(r)] = "0" /\ r[Len(r) - 1] = command_separator

\* the reply with status "0" that carries this response
IsReplyOf(raw, response) ==
  LET r == RStripCR(raw)
  IN  \/ r = response \o << command_separator, "0" >>
      \/ r = << "0" >> /\ response = << >>

\* C9: an error-checked query whose reply carries the status "0" opens one
\* session, writes once, reads once, makes no error-queue lookup and returns
\* the response field of the reply.
C9_StatusZeroNoLookup ==
  \A t \in Threads :
    \A i \in 1..Len(LogOf(t)) :
      ( /\ LogOf(t)[i].e = "read"
        /\ LogOf(t)[i].slot = "main"
        /\ StatusZero(LogOf(t)[i].msg)
        /\ OpOf(t) = "checked" )
      => /\ \A j \in 1..Len(LogOf(t)) : LogOf(t)[j].slot = "main"
         /\ th[t].slot # "lookup"
         /\ Count(LogOf(t), "connect") = 1
         /\ Count(LogOf(t), "write") = 1
         /\ Count(LogOf(t), "read") = 1
         /\ th[t].op = "idle" =>
              /\ res[t].kind = "ret"
              /\ IsReplyOf(LogOf(t)[i].msg, res[t].text)

\* C9 witness: the device answered "0" and the query returned the empty text
C9_Witness ==
  \E t \in Threads :
    /\ res[t].op = "checked"
    /\ res[t].kind = "ret"
    /\ res[t].text = << >>
    /\ \E i \in 1..Len(res[t].log) :
         res[t].log[i] = Event("read", "main", << "0" >>, 0)

\* the reply is "<code>,<message>": an integer, a comma, and the message
IsErrorRecord(reply) ==
  /\ Contains(reply, ",")
  /\ IntParses(SubSeq(reply, 1, FirstIndex(reply, ",") - 1))

RecordCode(reply) == IntValue(SubSeq(reply, 1, FirstIndex(reply, ",") - 1))

RecordMessage(reply) == SubSeq(reply, FirstIndex(reply, ",") + 1, Len(reply))

\* C10: an error-checked query that read a status other than "0" and whose
\* error-queue lookup was answered with "<code>,<message>" ends with a
\* SpektralwerkResponseError carrying the command, that code and that
\* message, also when the message holds a comma.
C10_DeviceRejectedCarriesRecord ==
  \A t \in Threads :
    \A i \in 1..Len(res[t].log) :
      ( /\ res[t].op = "checked"
        /\ res[t].log[i].e = "read"
        /\ res[t].log[i].slot = "lookup"
        /\ IsErrorRecord(res[t].log[i].msg) )
      => /\ res[t].kind = "exc"
         /\ res[t].exc =
              SpektralwerkResponseError("*IDN?",
                                        RecordCode(res[t].log[i].msg),
                                        RecordMessage(res[t].log[i].msg))

\* the error-queue lookup of the operation failed: its connection was
\* refused, or its write or read timed out
LookupFailed(log) ==
  \E i \in 1..Len(log) :
    /\ log[i].slot = "lookup"
    /\ \/ log[i].e = "refused"
       \/ /\ log[i].e \in {"write_failed", "read_failed"}
          /\ log[i].msg = << "error_timeout" >>

\* the status field of the reply the operation read on its own session
StatusRead(log) ==
  LET i == CHOOSE i \in 1..Len(log) : log[i].e = "read" /\ log[i].slot = "main"
      r == RStripCR(log[i].msg)
  IN  SubSeq(r, LastIndex(r, command_separator) + 1, Len(r))

\* C11: an error-checked query that read a status other than "0" and whose
\* error-queue lookup failed (refused, or timed out) ends with a
\* SpektralwerkResponseError that carries the command and the status field
\* as it was read.
C11_LookupFailureKeepsRejection ==
  \A t \in Threads :
    (res[t].op = "checked" /\ LookupFailed(res[t].log))
    => /\ res[t].kind = "exc"
       /\ res[t].exc.type = "SpektralwerkResponseError"
       /\ res[t].exc.command = "*IDN?"
       /\ res[t].exc.message = StatusRead(res[t].log)

\* the operation made, or is making, its error-queue lookup
LookupAttempted(t) ==
  \/ th[t].slot = "lookup"
  \/ \E j \in 1..Len(LogOf(t)) : LogOf(t)[j].slot = "lookup"

\* the operation read this reply on its own session
ReadsReply(t, i) ==
  /\ OpOf(t) = "checked"
  /\ LogOf(t)[i].e = "read"
  /\ LogOf(t)[i].slot = "main"

\* C12 as stated: an error-checked query whose reply holds no separator
\* makes no error-queue lookup and returns the empty response, whatever the
\* reply is.
C12_NoSeparatorIsNoError ==
  \A t \in Threads :
    \A i \in 1..Len(LogOf(t)) :
      (ReadsReply(t, i) /\ ~Contains(LogOf(t)[i].msg, command_separator))
      => /\ ~LookupAttempted(t)
         /\ th[t].op = "idle" => (res[t].kind = "ret" /\ res[t].text = << >>)

\* C12, amended: a reply without separator is taken whole as the status
\* value, with an empty response.  When it is "0" (carriage returns at its
\* end aside) the query makes no lookup and returns the empty response;
\* when it is anything else the query makes the error-queue lookup and ends
\* with an exception, as for every status other than "0".
C12_NoSeparatorIsStatus ==
  \A t \in Threads :
    \A i \in 1..Len(LogOf(t)) :
      (ReadsReply(t, i) /\ ~Contains(LogOf(t)[i].msg, command_separator))
      => IF RStripCR(LogOf(t)[i].msg) = << "0" >>
           THEN /\ ~LookupAttempted(t)
                /\ th[t].op = "idle" =>
                     (res[t].kind = "ret" /\ res[t].text = << >>)
           ELSE /\ LookupAttempted(t)
                /\ th[t].op = "idle" => res[t].kind = "exc"

\* C12 witness: the reply was "1" without a separator, the lookup was
\* answered and the query ended with SpektralwerkResponseError
C12_Witness ==
  \E t \in Threads :
    /\ res[t].op = "checked"
    /\ res[t].kind = "exc"
    /\ res[t].exc.type = "SpektralwerkResponseError"
    /\ \E i \in 1..Len(res[t].log) :
         res[t].log[i] = Event("read", "main", << "1" >>, 0)

\* the four kinds of failure: the three classes of exceptions.py that name
\* one, and the kind of an undecodable frame
FourKinds ==
  { "SpektralwerkConnectionError", "SpektralwerkTimeoutError",
    "SpektralwerkResponseError", "MalformedFrame" }

\* the device refused, kept silent or answered: no write or read failed with
\* a status other than the timeout
DeviceBehaved(log) ==
  \A i \in 1..Len(log) :
    log[i].e \in {"write_failed", "read_failed"}
      => log[i].msg = << "error_timeout" >>

\* C13: a public operation that does not return a value fails with one of
\* the four kinds, whether the device refuses, keeps silent or answers with
\* any text or any frame.
C13_OnlyFourKinds ==
  \A t \in Threads :
    (res[t].kind = "exc" /\ DeviceBehaved(res[t].log))
    => res[t].exc.type \in FourKinds

\* the entries of a log that are of one of the kinds, on one session
Entries(log, kinds, slot) ==
  { i \in 1..Len(log) : log[i].e \in kinds /\ log[i].slot = slot }

\* an exchange of the operation failed at entry i of its log
FailedAt(log, i) == log[i].e \in {"refused", "write_failed", "read_failed"}

\* C14: a checked query or get_error_message tries to open its own session
\* at most once and writes its command at most once; the only other session
\* is the one error-queue lookup of a checked query that has read a status
\* other than "0", with at most one write; and once a connection was
\* refused or a write or read has failed, sessions are closed and nothing
\* else is done.
C14_NoRetry ==
  \A t \in Threads :
    OpOf(t) \in {"checked", "errmsg"} =>
      LET log == LogOf(t)
      IN  /\ \A slot \in {"main", "lookup"} :
               /\ Cardinality(Entries(log, {"connect", "refused"}, slot)) <= 1
               /\ Cardinality(Entries(log, {"write", "write_failed"}, slot)) <= 1
               /\ Cardinality(Entries(log, {"read", "read_failed"}, slot)) <= 1
          /\ \A i \in 1..Len(log) :
               log[i].slot = "lookup" =>
                 /\ OpOf(t) = "checked"
                 /\ \E j \in 1..(i - 1) :
                      /\ log[j].e = "read"
                      /\ log[j].slot = "main"
                      /\ StatusRead(log) # << "0" >>
          /\ \A i \in 1..Len(log) :
               FailedAt(log, i) =>
                 \A j \in (i + 1)..Len(log) : log[j].e = "close"

\* C14 witness: a checked query whose read timed out has ended, after one
\* session, one write and one read
C14_Witness ==
  \E t \in Threads :
    /\ res[t].op = "checked"
    /\ res[t].kind = "exc"
    /\ res[t].exc.type = "SpektralwerkTimeoutError"
    /\ Cardinality(Entries(res[t].log, {"connect"}, "main")) = 1
    /\ Cardinality(Entries(res[t].log, {"write"}, "main")) = 1
    /\ Entries(res[t].log, {"read_failed"}, "main") # {}

\* the frames that carry a timestamp and samples of the device
WellFormedFrames == { EncodeFrame(v) : v \in FrameValues }

WellFormed(frame) == frame \in WellFormedFrames

\* the frames the device pushed on the caller's stream session that the
\* client has not read
Unread(t) ==
  LET own == { s \in sessions : s.owner = t /\ s.slot = "stream" }
  IN  IF own = {} THEN 0
      ELSE LET inbox == (CHOOSE s \in own : TRUE).inbox
           IN  Cardinality({ i \in 1..Len(inbox) : inbox[i] = Delimiter })

\* the caller's stream is live: its session is open
Streaming(t) ==
  /\ gen[t].state \in {"running", "suspended"}
  /\ \E s \in sessions : s.owner = t /\ s.slot = "stream"

\* C15: while the frames the device has pushed on a stream session are
\* well-formed, the stream has yielded one Spectrum for every frame read
\* from the session, the i-th decoded from the i-th frame pushed.
C15_FramesInOrder ==
  \A t \in Threads :
    ( /\ Streaming(t)
      /\ \A i \in 1..Len(gen[t].pushed) : WellFormed(gen[t].pushed[i]) )
    => /\ Len(gen[t].yielded) = Len(gen[t].pushed) - Unread(t)
       /\ \A i \in 1..Len(gen[t].yielded) :
            gen[t].yielded[i] = DecodeFrame(gen[t].pushed[i]).spectrum

\* C15 witness: two different well-formed frames were pushed, and two
\* values were yielded
C15_Witness ==
  \E t \in Threads :
    /\ Streaming(t)
    /\ Len(gen[t].pushed) = 2
    /\ Len(gen[t].yielded) = 2
    /\ gen[t].pushed[1] # gen[t].pushed[2]
    /\ \A i \in 1..2 : WellFormed(gen[t].pushed[i])

\* C16: a pull that reads a frame that cannot be decoded ends with
\* MalformedFrame.
C16_MalformedFrameRaised ==
  \A t \in Threads :
    \A i \in 1..Len(res[t].log) :
      ( /\ res[t].op = "pull"
        /\ res[t].log[i].e = "read_raw"
        /\ RStripDelimiter(res[t].log[i].msg) \in MalformedFrames )
      => /\ res[t].kind = "exc"
         /\ res[t].exc.type = "MalformedFrame"

\* a is the beginning of b
IsPrefix(a, b) == Len(a) <= Len(b) /\ a = SubSeq(b, 1, Len(a))

\* a pull that resumes the stream at its yield, as opposed to the first
\* pull of a stream
LaterPull(t) ==
  IF th[t].op = "pull"
    THEN gen[t].yielded # << >>
    ELSE res[t].op = "pull" /\ res[t].kind = "ret" /\ Len(gen[t].yielded) >= 2

\* the transport activity of a pull: at most one frame read; exactly one
\* when the pull returns a Spectrum; in a later pull nothing but the read
\* and, when it fails, the close; in the first pull at most one write of
\* the stream command, after the three configuration exchanges
PullReadsOnce(t) ==
  OpOf(t) = "pull" =>
    LET log == LogOf(t)
    IN  /\ Cardinality(Entries(log, {"read_raw", "read_failed"}, "stream")) <= 1
        /\ Cardinality(Entries(log, {"write", "write_failed"}, "stream")) <= 1
        /\ Entries(log, {"connect", "refused", "write", "write_failed"},
                   "stream") # {}
             => Cardinality(Entries(log, {"read"}, "main")) = Len(ConfigCommands)
        /\ (th[t].op = "idle" /\ res[t].kind = "ret")
             => Cardinality(Entries(log, {"read_raw"}, "stream")) = 1
        /\ LaterPull(t) =>
             \A i \in 1..Len(log) :
               /\ log[i].slot = "stream"
               /\ log[i].e \in {"read_raw", "read_failed", "close"}

\* a step in which the caller is in no public operation, creating a stream
\* included: no session of the caller is opened or closed and nothing is
\* read from one
IdleStepReadsNothing(t) ==
  (th[t].op = "idle" /\ th'[t].op = "idle") =>
    /\ \A s \in sessions :
         s.owner = t =>
           \E s2 \in sessions' :
             /\ s2.owner = t
             /\ s2.slot = s.slot
             /\ IsPrefix(s.inbox, s2.inbox)
    /\ \A s2 \in sessions' :
         s2.owner = t => \E s \in sessions : s.owner = t /\ s.slot = s2.slot
    /\ gen'[t].state = "created" => sessions' = sessions

\* C17: get_spectra and the time between two pulls bring no transport
\* activity, and every pull reads one frame: no more, and, on the first
\* pull only, the configuration exchanges and the one write of the stream
\* command before it.
C17_ConsumerDriven ==
  [][\A t \in callers : IdleStepReadsNothing(t) /\ PullReadsOnce(t)']_vars

\* C17 witness: a later pull has returned a Spectrum, and its only
\* transport activity was the read of one frame
C17_Witness ==
  \E t \in Threads :
    /\ th[t].op = "idle"
    /\ res[t].op = "pull"
    /\ res[t].kind = "ret"
    /\ Len(gen[t].yielded) = 2
    /\ Len(res[t].log) = 1
    /\ res[t].log[1].e = "read_raw"

\* the timestamp in microseconds and the samples a Spectrum stands for
ValueOf(spectrum) ==
  [timestamp_musec |-> spectrum.timestamp_sec.sec * 1000000
                         + spectrum.timestamp_sec.musec,
   samples |-> spectrum.data]

\* C18: a pull that reads the frame that encodes a timestamp and k samples
\* returns a Spectrum, and that Spectrum is the one of this timestamp, in
\* seconds, and of these k samples in their order: its timestamp and
\* samples are among the device's, and their encoding is the frame read.
C18_DecodeInvertsEncode ==
  \A t \in Threads :
    res[t].op = "pull" =>
      \A i \in 1..Len(res[t].log) :
        ( /\ res[t].log[i].e = "read_raw"
          /\ WellFormed(RStripDelimiter(res[t].log[i].msg)) )
        => /\ res[t].kind = "ret"
           /\ res[t].spectrum.timestamp_sec.musec \in 0..999999
           /\ ValueOf(res[t].spectrum) \in FrameValues
           /\ EncodeFrame(ValueOf(res[t].spectrum))
                = RStripDelimiter(res[t].log[i].msg)

\* C18 witness: the frame of the largest timestamp with the samples -32768
\* and 256 was read and decoded
C18_Witness ==
  \E t \in Threads :
    /\ res[t].op = "pull"
    /\ res[t].kind = "ret"
    /\ res[t].spectrum.timestamp_sec = [sec |-> 2147, musec |-> 483647]
    /\ res[t].spectrum.data = << 0 - 32768, 256 >>

\* C19: get_error_message returns the code and message of the line the
\* device sent, without the carriage returns the transport left at its end.
C19_PlainQueryStripsCR ==
  \A t \in Threads :
    \A i \in 1..Len(res[t].log) :
      ( /\ res[t].op = "errmsg"
        /\ res[t].kind = "ret"
        /\ res[t].log[i].e = "read" )
      => /\ res[t].code = ErrorMessageOf(RStripCR(res[t].log[i].msg)).code
         /\ res[t].message = ErrorMessageOf(RStripCR(res[t].log[i].msg)).message

\* ';' is at position k of r and nowhere after it; k = 0: ';' is not in r
LastSeparatorAt(r, k) ==
  /\ k = 0 \/ r[k] = command_separator
  /\ \A j \in (k + 1)..Len(r) : r[j] # command_separator

\* C20: the status value of a reply is the text after its last ';' and the
\* response all that is before that ';'; without a ';' the reply is the
\* status value and the response is empty.  The status value is what the
\* handler holds during the lookup and what decides between a return and a
\* lookup, and the response is what is returned.
C20_SplitFromRightOnce ==
  \A t \in Threads :
    \A i \in 1..Len(LogOf(t)) :
      ReadsReply(t, i) =>
        LET r == RStripCR(LogOf(t)[i].msg)
        IN  \A k \in 0..Len(r) :
              LastSeparatorAt(r, k) =>
                LET status   == SubSeq(r, k + 1, Len(r))
                    response == SubSeq(r, 1, k - 1)
                IN  /\ th[t].slot = "lookup" => th[t].esr = status
                    /\ status = << "0" >> =>
                         /\ ~LookupAttempted(t)
                         /\ th[t].op = "idle" =>
                              (res[t].kind = "ret" /\ res[t].text = response)
                    /\ status # << "0" >> =>
                         /\ LookupAttempted(t)
                         /\ th[t].op = "idle" => res[t].kind = "exc"

\* C20 witness: the reply ";;0" was read and the response ";" returned
C20_Witness ==
  \E t \in Threads :
    /\ res[t].op = "checked"
    /\ res[t].kind = "ret"
    /\ res[t].text = << command_separator >>
    /\ \E i \in 1..Len(res[t].log) :
         res[t].log[i] =
           Event("read", "main",
                 << command_separator, command_separator, "0" >>, 0)

\* the entries of a log that stand for a write or a read, done or failed
IOKinds == {"write", "write_failed", "read", "read_failed", "read_raw"}

\* the commands that are sent with the status wrapping: the caller's, and
\* the three configuration commands of a stream, spelled out
WrappedCommands ==
  Commands \cup
    { "MEASure:SPECtrum:REQuest:CONFig:COUNt 0",
      "MEASure:SPECtrum:REQuest:CONFig:FREQuency 0",
      "MEASure:SPECtrum:REQuest:CONFig:FORMat cobs_int16" }

\* the message is "*CLS", ";", a command, ";", "*ESR?" in this order
IsWrapped(msg) ==
  /\ Len(msg) = 5
  /\ msg[1] = "*CLS"
  /\ msg[2] = ";"
  /\ msg[3] \in WrappedCommands
  /\ msg[4] = ";"
  /\ msg[5] = "*ESR?"

\* entry i of the log lies in the session of its slot that was established
\* at entry k: no close of that slot lies between them
InSessionOf(log, k, i) ==
  /\ k < i
  /\ log[k].e = "connect"
  /\ log[k].slot = log[i].slot
  /\ \A m \in (k + 1)..(i - 1) :
       ~(log[m].e \in {"close", "connect"} /\ log[m].slot = log[i].slot)

\* C21: an error-checked exchange (the caller's checked query, and each
\* configuration exchange of a stream) writes one message on its session,
\* which is the status clear, the command and the status query joined by
\* ';' in this order; the one read of the session answers this write and
\* follows it at once; no second write is made on the session, and both lie
\* between the establishment of the session and its close.
C21_WrappedOnceInOneSession ==
  \A t \in Threads :
    OpOf(t) \in {"checked", "pull"} =>
      LET log == LogOf(t)
      IN  \A i \in 1..Len(log) :
            /\ (log[i].slot = "main" /\ log[i].e = "write") =>
                 /\ IsWrapped(log[i].msg)
                 /\ OpOf(t) = "checked" => log[i].msg[3] = "*IDN?"
                 /\ \E k \in 1..(i - 1) :
                      /\ InSessionOf(log, k, i)
                      /\ \A m \in (k + 1)..(i - 1) :
                           ~(log[m].e \in IOKinds /\ log[m].slot = "main")
                 /\ i < Len(log) =>
                      /\ log[i + 1].slot = "main"
                      /\ log[i + 1].e \in {"read", "read_failed"}
                 /\ \A j \in (i + 1)..Len(log) :
                      (log[j].slot = "main" /\ log[j].e \in IOKinds /\ j # i + 1)
                      => \E m \in (i + 1)..(j - 1) :
                           log[m].slot = "main" /\ log[m].e = "close"
            /\ (log[i].slot = "main" /\ log[i].e \in {"read", "read_failed"}) =>
                 /\ i > 1
                 /\ log[i - 1].slot = "main"
                 /\ log[i - 1].e = "write"

\* C21 witness: a checked query has returned after it wrote
\* "*CLS;*IDN?;*ESR?" and read the reply as the next thing it did
C21_Witness ==
  \E t \in Threads :
    /\ th[t].op = "idle"
    /\ res[t].op = "checked"
    /\ res[t].kind = "ret"
    /\ \E i \in 1..(Len(res[t].log) - 1) :
         /\ res[t].log[i] =
              Event("write", "main", << "*CLS", ";", "*IDN?", ";", "*ESR?" >>, 0)
         /\ res[t].log[i + 1].e = "read"
         /\ res[t].log[i + 1].slot = "main"

\* the transport activity the step adds to the log of the caller's operation
NewEntries(t) ==
  IF th[t].op = "idle" THEN << >>
  ELSE LET after == IF th'[t].op = "idle" THEN res'[t].log ELSE th'[t].log
       IN  SubSeq(after, Len(th[t].log) + 1, Len(after))

\* the step establishes a session of the caller
Establishes(t) ==
  \E s \in sessions' :
    /\ s.owner = t
    /\ \A s0 \in sessions : ~(s0.owner = t /\ s0.slot = s.slot)

\* the caller has waited for the deadline: it is at the open and the delay
\* it computed from the deadline has elapsed; when no other caller uses the
\* client, the deadline has passed
GatePassed(t) ==
  /\ th[t].pc = "gs_open"
  /\ th[t].wake = 0
  /\ callers = {t} => wait_until_next_connection_time <= Monotonic

\* the step that establishes a session sets its timeout and clears it, in
\* this order and with nothing between
OpensInOrder(t) ==
  /\ Len(NewEntries(t)) = 3
  /\ NewEntries(t)[1].e = "connect"
  /\ NewEntries(t)[2].e = "timeout"
  /\ NewEntries(t)[3].e = "clear"
  /\ \A k \in 1..3 : NewEntries(t)[k].slot = th[t].slot
  /\ \E s \in sessions' :
       /\ s.owner = t
       /\ s.slot = th[t].slot
       /\ s.timeout = NewEntries(t)[2].n

\* a write or a read is made on a session that was established, and so
\* cleared, in an earlier step
UsesClearedSession(t) ==
  \A k \in 1..Len(NewEntries(t)) :
    NewEntries(t)[k].e \in IOKinds =>
      \E s \in sessions : s.owner = t /\ s.slot = NewEntries(t)[k].slot

\* in the log, connect, timeout and clear come together, and after a refused
\* connection nothing is written or read
LogInOrder(log) ==
  \A i \in 1..Len(log) :
    /\ log[i].e = "clear" =>
         /\ i > 2
         /\ log[i - 1].e = "timeout" /\ log[i - 1].slot = log[i].slot
         /\ log[i - 2].e = "connect" /\ log[i - 2].slot = log[i].slot
    /\ log[i].e \in {"connect", "timeout"} => i < Len(log)
    /\ log[i].e = "refused" =>
         \A j \in (i + 1)..Len(log) : log[j].e \notin IOKinds

\* C22: a session is established only by a caller that has waited until
\* the deadline has passed; the step that establishes it sets the timeout
\* and then clears the device state; every write and read is made on a
\* session that was cleared before; and after a refused connection nothing
\* is written.
C22_OpenInFixedOrder ==
  [][\A t \in callers :
       /\ Establishes(t) => (GatePassed(t) /\ OpensInOrder(t))
       /\ UsesClearedSession(t)
       /\ LogInOrder(LogOf(t))']_vars

\* C22 witness: a session was established a full reconnection delay after
\* the last close, it is cleared, and the command is written on it
C22_Witness ==
  \E t \in Threads :
    /\ th[t].op # "idle"
    /\ \E s \in sessions :
         /\ s.owner = t
         /\ s.slot = "main"
         /\ s.afterClose >= DEVICE_RECONNECTION_DELAY
    /\ \E i \in 4..Len(th[t].log) :
         /\ th[t].log[i].e = "write"
         /\ th[t].log[i - 1].e = "clear"
         /\ th[t].log[i - 2].e = "timeout"
         /\ th[t].log[i - 3].e = "connect"

\* the sessions the caller holds for its stream
StreamSessions(t) == { s \in sessions : s.owner = t /\ s.slot = "stream" }

\* the stream command has been written and the stream has not ended
StreamStarted(t) == gen[t].written /\ gen[t].state \in {"running", "suspended"}

\* while the stream is started, and so between two pulls, its one session
\* is open; a pull reads at most one frame
OneStreamSession(t) ==
  /\ StreamStarted(t) => Cardinality(StreamSessions(t)) = 1
  /\ gen[t].state = "suspended" => gen[t].written
  /\ Cardinality(StreamSessions(t)) <= 1
  /\ OpOf(t) = "pull" =>
       Cardinality(Entries(LogOf(t), {"read_raw", "read_failed"}, "stream")) <= 1

\* what a step of the caller's stream does on the transport: the session is
\* established and the command written before the stream is started, the
\* command is "MEASure:SPECtrum:REQuest?", and once the stream is started a
\* step reads a frame from the stream session or closes it, nothing else
StreamStep(t) ==
  \A k \in 1..Len(NewEntries(t)) :
    LET entry == NewEntries(t)[k]
    IN  /\ (entry.slot = "stream" /\ entry.e \in {"connect", "refused"}) =>
             (~gen[t].written /\ StreamSessions(t) = {})
        /\ (entry.slot = "stream" /\ entry.e \in {"write", "write_failed"}) =>
             /\ ~gen[t].written
             /\ gen[t].yielded = << >>
             /\ entry.e = "write" =>
                  (entry.msg = << "MEASure:SPECtrum:REQuest?" >> /\ gen'[t].written)
        /\ (th[t].op \in {"pull", "close"} /\ gen[t].written) =>
             /\ entry.slot = "stream"
             /\ entry.e \in {"read_raw", "read_failed", "close"}
        /\ entry.e = "read_raw" => StreamStarted(t)

\* the session of a stream is closed only when the stream ends: the
\* consumer closes it, or a pull ends with an exception
StreamSessionKept(t) ==
  (StreamSessions(t) # {} /\ { s \in sessions' : s.owner = t /\ s.slot = "stream" } = {})
  => /\ gen'[t].state = "finished"
     /\ th'[t].op = "idle"
     /\ \/ th[t].op = "close"
        \/ th[t].op = "pull" /\ res'[t].kind = "exc"

\* C23: a stream has one session for its whole life.  The session is
\* established and the stream command written once, before the first frame
\* is read; between two pulls the session stays open; a later pull does
\* nothing but read one frame from it; and it is closed only when the
\* consumer closes the stream or a pull fails.
C23_OneLongLivedSession ==
  [][\A t \in callers :
       /\ OneStreamSession(t)'
       /\ StreamStep(t)
       /\ StreamSessionKept(t)]_vars

\* C23 witness: the stream is suspended after its second pull, which did
\* nothing but read a frame, and its session is open
C23_Witness ==
  \E t \in Threads :
    /\ gen[t].state = "suspended"
    /\ Len(gen[t].yielded) = 2
    /\ Cardinality(StreamSessions(t)) = 1
    /\ res[t].op = "pull"
    /\ \A i \in 1..Len(res[t].log) : res[t].log[i].e = "read_raw"

\* the kinds of configuration command, in the order count, frequency,
\* output format, each by the text its command begins with
ConfigOrder ==
  << "MEASure:SPECtrum:REQuest:CONFig:COUNt 0",
     "MEASure:SPECtrum:REQuest:CONFig:FREQuency 0",
     "MEASure:SPECtrum:REQuest:CONFig:FORMat cobs_int16" >>

\* the entries of the log before entry i that are of one of the kinds, on
\* one session slot
EntriesBefore(log, kinds, slot, i) ==
  { k \in 1..(i - 1) : log[k].e \in kinds /\ log[k].slot = slot }

\* the configuration exchange whose reply is entry i succeeded
ReadSucceeded(log, i) ==
  /\ log[i].e = "read"
  /\ log[i].slot = "main"
  /\ StatusZero(log[i].msg)

\* a configuration exchange failed: a connection was refused, a write or
\* read failed, or the status read was not "0"
ConfigFailed(log) ==
  \E i \in 1..Len(log) :
    /\ log[i].slot \in {"main", "lookup"}
    /\ \/ FailedAt(log, i)
       \/ log[i].e = "read" /\ log[i].slot = "main" /\ ~StatusZero(log[i].msg)

\* C24: in the first pull of a stream the k-th status-wrapped command
\* written is the k-th of count, frequency, output format; the session of a
\* configuration exchange is closed before the next one is established; the
\* stream session is established only after three configuration exchanges
\* have read the status "0" and their sessions are closed; and when a
\* configuration exchange fails, no stream session is established and the
\* pull ends with an exception.
C24_ConfigBeforeStream ==
  \A t \in Threads :
    OpOf(t) = "pull" =>
      LET log == LogOf(t)
      IN  /\ \A i \in 1..Len(log) :
               /\ (log[i].e = "write" /\ log[i].slot = "main") =>
                    LET k == Cardinality(EntriesBefore(log, {"write"}, "main", i)) + 1
                    IN  /\ k <= 3
                        /\ log[i].msg[3] = ConfigOrder[k]
                        /\ \A j \in EntriesBefore(log, {"read"}, "main", i) :
                             ReadSucceeded(log, j)
               /\ (log[i].e \in {"connect", "refused"} /\ log[i].slot = "main") =>
                    Cardinality(EntriesBefore(log, {"connect"}, "main", i))
                      = Cardinality(EntriesBefore(log, {"close"}, "main", i))
               /\ (log[i].e \in {"connect", "refused"} /\ log[i].slot = "stream") =>
                    /\ Cardinality({ j \in 1..(i - 1) : ReadSucceeded(log, j) }) = 3
                    /\ Cardinality(EntriesBefore(log, {"close"}, "main", i)) = 3
                    /\ \A j \in 1..(i - 1) : log[j].slot = "main"
                    /\ ~ConfigFailed(log)
               /\ (log[i].e \in {"write", "write_failed"} /\ log[i].slot = "stream") =>
                    EntriesBefore(log, {"connect"}, "stream", i) # {}
          /\ ConfigFailed(log) =>
               /\ \A i \in 1..Len(log) : log[i].slot # "stream"
               /\ StreamSessions(t) = {}
               /\ ~gen[t].written
               /\ th[t].op = "idle" =>
                    /\ res[t].kind = "exc"
                    /\ gen[t].state \notin {"running", "suspended"}

\* C24 witness: the three configuration exchanges succeeded in their order,
\* the stream session was established after them and the stream command is
\* written
C24_Witness ==
  \E t \in Threads :
    /\ th[t].op = "pull"
    /\ gen[t].written
    /\ LET writes == { i \in 1..Len(th[t].log) :
                         th[t].log[i].e = "write" /\ th[t].log[i].slot = "main" }
       IN  /\ Cardinality(writes) = 3
           /\ \E i \in writes, j \in writes, k \in writes :
                /\ i < j /\ j < k
                /\ th[t].log[i].msg[3] = ConfigOrder[1]
                /\ th[t].log[j].msg[3] = ConfigOrder[2]
                /\ th[t].log[k].msg[3] = ConfigOrder[3]
                /\ \E c \in (k + 1)..Len(th[t].log) :
                     th[t].log[c].e = "connect" /\ th[t].log[c].slot = "stream"

\* the error-queue queries of a log: each takes at most one entry from the
\* device's error queue, and nothing else of the client takes any
QueueQueries(log) ==
  { i \in 1..Len(log) :
      log[i].e = "write" /\ log[i].msg = << "SYSTem:ERRor:NEXT?" >> }

\* entry i is the write of a session that was established, given its
\* timeout and cleared just before, on the same slot
FreshSessionWrite(log, i, timeout) ==
  /\ i > 3
  /\ log[i - 3] = Event("connect", log[i].slot, << >>, 0)
  /\ log[i - 2] = Event("timeout", log[i].slot, << >>, timeout)
  /\ log[i - 1] = Event("clear", log[i].slot, << >>, 0)

\* C25: a checked query makes at most one error-queue lookup and makes it
\* only after it has read a status other than "0"; the lookup is the plain
\* query "SYSTem:ERRor:NEXT?" written once on a session of its own, which
\* is established for it with the timeout 200 while the command's session
\* has the caller's timeout; nothing is written on the command's session
\* after the wrapped command; so at most one entry is taken from the error
\* queue.
C25_OneShortLookup ==
  \A t \in Threads :
    OpOf(t) = "checked" =>
      LET log == LogOf(t)
      IN  /\ Cardinality(Entries(log, {"connect", "refused"}, "lookup")) <= 1
          /\ Cardinality(Entries(log, {"write", "write_failed"}, "lookup")) <= 1
          /\ Cardinality(Entries(log, {"write", "write_failed"}, "main")) <= 1
          /\ Cardinality(QueueQueries(log)) <= 1
          /\ \A s \in sessions :
               s.owner = t =>
                 /\ s.slot = "lookup" => s.timeout = 200
                 /\ (s.slot = "main" /\ th[t].op = "checked") =>
                      s.timeout = th[t].timeout
          /\ \A i \in 1..Len(log) :
               /\ log[i].slot = "lookup" =>
                    \E j \in 1..(i - 1) :
                      /\ log[j].e = "read"
                      /\ log[j].slot = "main"
                      /\ ~StatusZero(log[j].msg)
               /\ (log[i].e = "timeout" /\ log[i].slot = "lookup") =>
                    log[i].n = 200
               /\ (log[i].e = "timeout" /\ log[i].slot = "main") =>
                    /\ log[i].n \in {2000, 100}
                    /\ th[t].op = "checked" => log[i].n = th[t].timeout
               /\ (log[i].e = "write" /\ log[i].slot = "lookup") =>
                    /\ log[i].msg = << "SYSTem:ERRor:NEXT?" >>
                    /\ FreshSessionWrite(log, i, 200)
               /\ i \in QueueQueries(log) => log[i].slot = "lookup"

\* C25 witness: a checked query called with the timeout 100 read a status
\* other than "0", made its lookup on a session with the timeout 200 and
\* ended with the error record
C25_Witness ==
  \E t \in Threads :
    /\ res[t].op = "checked"
    /\ res[t].kind = "exc"
    /\ res[t].exc.type = "SpektralwerkResponseError"
    /\ \E i \in 1..Len(res[t].log) :
         res[t].log[i] = Event("timeout", "main", << >>, 100)
    /\ \E i \in 1..Len(res[t].log) :
         /\ res[t].log[i].e = "write"
         /\ res[t].log[i].slot = "lookup"
         /\ FreshSessionWrite(res[t].log, i, 200)

\* One tick passes and nothing else happens.  The deadline is kept as the
\* time left until it: while the clock advances by one tick the time left
\* falls by one, and the instant of the deadline is the same.
TimePasses ==
  /\ wait_until_next_connection_time' =
       Max(0, wait_until_next_connection_time - 1)
  /\ th' = [t \in Threads |-> [th[t] EXCEPT !.wake = Max(0, th[t].wake - 1)]]
  /\ UNCHANGED << sessions, device, gen, res, budget, callers >>

\* the step is the one after a caller has closed its session without an
\* exception, and the deadline becomes now + DEVICE_RECONNECTION_DELAY
SetAfterClose ==
  \E t \in callers :
    /\ th[t].pc = "gs_gate"
    /\ th[t].log # << >>
    /\ th[t].log[Len(th[t].log)].e = "close"
    /\ \A s \in sessions : ~(s.owner = t /\ s.slot = th[t].slot)
    /\ wait_until_next_connection_time' = Monotonic + DEVICE_RECONNECTION_DELAY

\* the step in which the caller's connection is refused
Refused(t) ==
  /\ th[t].pc = "gs_open"
  /\ NewEntries(t) # << >>
  /\ NewEntries(t)[1].e = "refused"

\* the step is one of the caller in get_session before the with block: the
\* read of the deadline, the end of the sleep, or the open
EntersSession(t) ==
  /\ th[t].pc \in {"gs_delay", "gs_sleep", "gs_open"}
  /\ th'[t] # th[t]
  /\ ~TimePasses

\* C26: the instant of the deadline changes only in the step after a
\* session was closed by line 137, where it becomes the time of the step
\* plus DEVICE_RECONNECTION_DELAY.  A refused connection leaves the
\* deadline and the sessions as they are and adds nothing to the transport
\* activity but the refusal; reading the deadline, sleeping and opening a
\* session leave the deadline as it is.
C26_GateChangesOnlyAtClose ==
  [][/\ wait_until_next_connection_time' # wait_until_next_connection_time
          => (TimePasses \/ SetAfterClose)
     /\ \A t \in callers :
          /\ Refused(t) =>
               /\ wait_until_next_connection_time' = wait_until_next_connection_time
               /\ sessions' = sessions
               /\ sinceClose' = sinceClose
               /\ NewEntries(t) = << Event("refused", th[t].slot, << >>, 0) >>
          /\ EntersSession(t) =>
               wait_until_next_connection_time' = wait_until_next_connection_time]_vars

\* C26 witness: after a session of the endpoint was closed, an operation
\* has ended with a refused connection, and the deadline is the passed one
C26_Witness ==
  \E t \in Threads :
    /\ th[t].op = "idle"
    /\ res[t].kind = "exc"
    /\ res[t].exc.type = "SpektralwerkConnectionError"
    /\ res[t].log = << Event("refused", "main", << >>, 0) >>
    /\ sinceClose >= 0
    /\ wait_until_next_connection_time = 0

\* the reply is one integer code and one message separated by a single
\* comma
WellShaped(reply) ==
  /\ Cardinality({ i \in 1..Len(reply) : reply[i] = "," }) = 1
  /\ IntParses(SubSeq(reply, 1, FirstIndex(reply, ",") - 1))

\* the exchange of the operation itself failed
ExchangeFailed(log) == \E i \in 1..Len(log) : FailedAt(log, i)

\* C27: a get_error_message that has read a reply returns, whatever the
\* reply is; for a reply that is not one integer code and one message
\* separated by a single comma it returns the code -1 and the whole reply
\* as the message; and when it raises, the exchange itself has failed and
\* the exception is SpektralwerkConnectionError or SpektralwerkTimeoutError.
C27_ShapeNeverFails ==
  \A t \in Threads :
    (th[t].op = "idle" /\ res[t].op = "errmsg") =>
      /\ \A i \in 1..Len(res[t].log) :
           res[t].log[i].e = "read" =>
             /\ res[t].kind = "ret"
             /\ ~WellShaped(res[t].log[i].msg) =>
                  /\ res[t].code = 0 - 1
                  /\ res[t].message = res[t].log[i].msg
      /\ res[t].kind = "exc" =>
           /\ ExchangeFailed(res[t].log)
           /\ res[t].exc.type \in
                {"SpektralwerkConnectionError", "SpektralwerkTimeoutError"}

====
